---------------------------- MODULE Spec2Model ----------------------------
(***************************************************************************)
(* The measurement-and-sleep cycle of the Canique ULV battery measurement  *)
(* sketch (src/ulv/battery_measurement/battery_measurement.ino): setup(),  *)
(* getBatteryVoltage(), loop(), the ADC interrupt and the two sleeps, over *)
(* the ATmega328P registers the sketch touches.                            *)
(***************************************************************************)
EXTENDS Integers, Sequences, FiniteSets, TLC

(***************************************************************************)
(* Bounds of the model.                                                    *)
(***************************************************************************)
\* largest numSamples argument the harness specification SpecArg passes
MaxNumSamples == 12
\* largest number of valid samples the pure-function specification draws
MaxValid == 10

\* raw counts the ADC data register takes in the state-machine specifications
RawCounts == {0, 800, 1023}

(***************************************************************************)
(* Machine integers.                                                       *)
(***************************************************************************)
\* 2^n, 0 <= n <= 30
Pow2(n) ==
    <<1, 2, 4, 8, 16, 32, 64, 128, 256, 512, 1024, 2048, 4096, 8192, 16384,
      32768, 65536, 131072, 262144, 524288, 1048576, 2097152, 4194304,
      8388608, 16777216, 33554432, 67108864, 134217728, 268435456,
      536870912, 1073741824>>[n + 1]

\* int on the AVR target: 16 bit two's complement, wrapping
WrapInt16(v) == ((v + 32768) % 65536) - 32768
\* byte: 8 bit unsigned, wrapping
WrapByte(v) == v % 256
\* conversion of a long to a uint8_t
ToUint8(v) == v % 256
\* conversion of a long to uint16_t
ToUint16(v) == v % 65536

Abs(v) == IF v < 0 THEN 0 - v ELSE v

(***************************************************************************)
(* float (and double, which is the same type on the AVR target): IEEE-754  *)
(* binary32, round to nearest, ties to even.  A value is                   *)
(* [s |-> sign, m |-> mantissa, e |-> exponent], standing for              *)
(* (-1)^s * m * 2^e with m = 0 or 2^23 <= m < 2^24.  Each operation binds  *)
(* its operands (x \in {a}) so that an operand is evaluated once.          *)
(***************************************************************************)
FZero == [s |-> 0, m |-> 0, e |-> 0]

\* the one element of a singleton set
The(S) == CHOOSE x \in S : TRUE

\* the float of sign s and magnitude mag, 0 < mag < 2^24: exact
FNormalize(s, mag) ==
    LET k == CHOOSE k \in 0..23 : Pow2(23 - k) <= mag /\ mag < Pow2(24 - k)
    IN  [s |-> s, m |-> mag * Pow2(k), e |-> 0 - k]

\* (float)v for an integer |v| < 2^24
IntToFloat(v) ==
    The({IF x = 0 THEN FZero ELSE FNormalize(IF x < 0 THEN 1 ELSE 0, Abs(x))
           : x \in {v}})

\* m is a 24 bit mantissa, rnd the next bit below it, sticky whether any
\* lower bit is set: the mantissa rounded to nearest even
FRound(s, m, e, rnd, sticky) ==
    LET up == rnd = 1 /\ (sticky \/ m % 2 = 1)
        m1 == IF up THEN m + 1 ELSE m
    IN  IF m1 = 16777216 THEN [s |-> s, m |-> 8388608, e |-> e + 1]
        ELSE [s |-> s, m |-> m1, e |-> e]

\* long division of r * 2^n by d for r < d < 2^24 and 21 < n < 29, seven
\* bits at a time: <<quotient, whether a remainder is left>>
DivBits(r, d, n) ==
    LET q1 == (r * 128) \div d
        r1 == (r * 128) % d
        q2 == (r1 * 128) \div d
        r2 == (r1 * 128) % d
        q3 == (r2 * 128) \div d
        r3 == (r2 * 128) % d
        q4 == (r3 * Pow2(n - 21)) \div d
        r4 == (r3 * Pow2(n - 21)) % d
    IN  <<((q1 * 128 + q2) * 128 + q3) * Pow2(n - 21) + q4, r4 # 0>>

\* the quotient of two mantissas, 24 bits and a round bit, in [2^24, 2^25)
FDivMantissa(x, y) ==
    IF x.m >= y.m
    THEN The({[s |-> (x.s + y.s) % 2, q |-> Pow2(24) + qr[1],
               e |-> x.e - y.e - 23, sticky |-> qr[2]]
                : qr \in {DivBits(x.m - y.m, y.m, 24)}})
    ELSE The({[s |-> (x.s + y.s) % 2, q |-> qr[1],
               e |-> x.e - y.e - 24, sticky |-> qr[2]]
                : qr \in {DivBits(x.m, y.m, 25)}})

\* a / b, b # 0
FDiv(a, b) ==
    The({IF x.m = 0 THEN FZero
         ELSE The({FRound(d.s, d.q \div 2, d.e, d.q % 2, d.sticky)
                     : d \in {FDivMantissa(x, y)}})
           : x \in {a}, y \in {b}})

\* the 48 bit product of two mantissas from 12 bit limbs, as high * 2^24 + low
FMulMantissa(x, y) ==
    LET a1  == x.m \div 4096
        a0  == x.m % 4096
        b1  == y.m \div 4096
        b0  == y.m % 4096
        mid == a1 * b0 + a0 * b1
        t   == a0 * b0 + (mid % 4096) * 4096
    IN  [low |-> t % 16777216,
         high |-> a1 * b1 + (mid \div 4096) + (t \div 16777216)]

\* a * b
FMul(a, b) ==
    The({IF x.m = 0 \/ y.m = 0 THEN FZero
         ELSE The({IF p.high >= 8388608
                   THEN FRound((x.s + y.s) % 2, p.high, x.e + y.e + 24,
                               p.low \div 8388608, p.low % 8388608 # 0)
                   ELSE FRound((x.s + y.s) % 2,
                               2 * p.high + (p.low \div 8388608),
                               x.e + y.e + 23,
                               (p.low \div 4194304) % 2,
                               p.low % 4194304 # 0)
                     : p \in {FMulMantissa(x, y)}})
           : x \in {a}, y \in {b}})

\* the magnitude of x rounded to an integer, halfway cases away from zero
RoundMagnitude(x) ==
    IF x.m = 0 \/ x.e < -24 THEN 0
    ELSE IF x.e >= 0 THEN x.m * Pow2(x.e)
    ELSE (x.m \div Pow2(0 - x.e))
           + (IF 2 * (x.m % Pow2(0 - x.e)) >= Pow2(0 - x.e) THEN 1 ELSE 0)

\* lround(a)
lround(a) ==
    The({IF x.s = 1 THEN 0 - RoundMagnitude(x) ELSE RoundMagnitude(x)
           : x \in {a}})

(***************************************************************************)
(* Calibration constants and the voltage computation of getBatteryVoltage. *)
(***************************************************************************)
\* the literal 1.0
VOLTAGE_CORRECTION == IntToFloat(1)

\* the ratio R1/R2 instead of (R1+R2)/R2
VOLTAGE_MULTIPLIER_R1R2 ==
    FMul(VOLTAGE_CORRECTION, FDiv(IntToFloat(680), IntToFloat(1000)))

\* the divider ratio (R1+R2)/R2 of the 1.8 V board, which the sketch selects
VOLTAGE_MULTIPLIER ==
    FMul(VOLTAGE_CORRECTION, FDiv(IntToFloat(1680), IntToFloat(1000)))

\* the #else branch taken although the board is the 3.3 V one
VOLTAGE_MULTIPLIER_3V3_Else ==
    FMul(VOLTAGE_CORRECTION, FDiv(IntToFloat(1680), IntToFloat(1000)))

\* the same constant with ULV_MAX_MEASURE_VOLTAGE_3V3 defined instead
VOLTAGE_MULTIPLIER_3V3 ==
    FMul(VOLTAGE_CORRECTION, FDiv(IntToFloat(989), IntToFloat(309)))

\* the scale factor without the division by the full-scale count
MilliVoltsPerCountNoFullScale ==
    FMul(IntToFloat(1000), FDiv(IntToFloat(11), IntToFloat(10)))

\* 1000 * ( 1.1 / 1023.0 ): the literal 1.1 is 11/10 rounded to a float
MilliVoltsPerCount ==
    FMul(IntToFloat(1000),
         FDiv(FDiv(IntToFloat(11), IntToFloat(10)), IntToFloat(1023)))

\* voltagesADC / (float)numValidSamples, numValidSamples # 0
avgVoltageADC(sum, valid) == FDiv(IntToFloat(sum), IntToFloat(valid))

\* the magnitude of x with its fraction cut off
TruncMagnitude(x) ==
    IF x.m = 0 \/ x.e < -24 THEN 0
    ELSE IF x.e >= 0 THEN x.m * Pow2(x.e)
    ELSE x.m \div Pow2(0 - x.e)

\* the conversion to an integer without lround: towards zero
ftrunc(a) ==
    The({IF x.s = 1 THEN 0 - TruncMagnitude(x) ELSE TruncMagnitude(x)
           : x \in {a}})

\* line 208 without the call of lround
battVoltageTruncated(sum, valid, multiplier) ==
    ToUint16(ftrunc(FMul(FMul(MilliVoltsPerCount, avgVoltageADC(sum, valid)),
                         multiplier)))

\* lround(1000 * (1.1 / 1023.0) * avgVoltageADC * multiplier), a long
milliVolts(sum, valid, multiplier) ==
    lround(FMul(FMul(MilliVoltsPerCount, avgVoltageADC(sum, valid)),
                multiplier))

\* uint16_t battVoltage = lround(...): the long converted to a uint16_t
battVoltageWith(sum, valid, multiplier) ==
    ToUint16(milliVolts(sum, valid, multiplier))

battVoltage(sum, valid) == battVoltageWith(sum, valid, VOLTAGE_MULTIPLIER)

(***************************************************************************)
(* Serial output: the characters of Print::print(unsigned) in base 10.     *)
(***************************************************************************)
Digits == <<"0", "1", "2", "3", "4", "5", "6", "7", "8", "9">>

RECURSIVE PrintNumber(_)
PrintNumber(n) ==
    IF n < 10 THEN <<Digits[n + 1]>>
    ELSE Append(PrintNumber(n \div 10), Digits[(n % 10) + 1])

(***************************************************************************)
(* State.                                                                  *)
(*   pc              where the sketch is                                   *)
(*   hw              the registers: DDRD4/PORTD4 are BATTREAD_ENABLE_PIN,  *)
(*                   ADMUX and ADCSRA are sets of the bits that are set,   *)
(*                   PRADC is the ADC bit of the power reduction register, *)
(*                   ADC is the ADC data register                          *)
(*   numSamples, i, voltagesADC, numValidSamples                           *)
(*                   parameter and locals of getBatteryVoltage             *)
(*   voltage         the local of loop()                                   *)
(*   serial          what loop() has printed in this cycle                 *)
(*   sleeps          entries into adcNoiseReduction in this cycle          *)
(*   clearWakes      attempts of this cycle whose check found ADSC clear   *)
(*   settles         settle delays executed in this cycle                  *)
(*   warmedUp        delay(10) has elapsed since the ADC was last enabled  *)
(*   divided         the division of line 203 was executed in this cycle   *)
(*   sumCounts       the arithmetic sum of the raw counts read out in this *)
(*                   cycle, as an unbounded integer                        *)
(***************************************************************************)
VARIABLES pc, hw, numSamples, i, voltagesADC, numValidSamples, voltage,
          serial, sleeps, clearWakes, settles, warmedUp, divided, sumCounts

vars == <<pc, hw, numSamples, i, voltagesADC, numValidSamples, voltage,
          serial, sleeps, clearWakes, settles, warmedUp, divided, sumCounts>>

locals == <<numSamples, i, voltagesADC, numValidSamples>>
history == <<sleeps, clearWakes, settles, divided, sumCounts>>

\* BATTERY_VOLTAGE_PRESCALER, prescaler 128
BATTERY_VOLTAGE_PRESCALER == {"ADPS2", "ADPS1", "ADPS0"}

\* the argument loop() passes to getBatteryVoltage
NumSamplesLoop == 10

\* values an uninitialised local may hold before its initialiser runs
StackInt == {0, 1023}
StackByte == {0, 1}

(***************************************************************************)
(* Helpers of the sketch, as functions of the registers.                   *)
(***************************************************************************)
pinModeOutput(h) == [h EXCEPT !.DDRD4 = "OUTPUT"]

digitalWrite(h, level) == [h EXCEPT !.PORTD4 = level]

\* turnOffADC without the line that clears ADEN
turnOffADCKeepsADEN(h) == [h EXCEPT !.PRADC = TRUE]

\* ADCSRA &= ~_BV(ADEN); power_adc_disable().  Clearing ADEN terminates a
\* conversion in progress.
turnOffADC(h) ==
    [h EXCEPT !.ADCSRA = h.ADCSRA \ {"ADEN", "ADSC"}, !.PRADC = TRUE]

\* ADMUX |= ...; turnOffADC(); the delay(10) that follows is in setup below
setupAnalogConverter(h) ==
    turnOffADC([h EXCEPT !.ADMUX =
                   h.ADMUX \cup {"MUX2", "MUX1", "MUX0", "REFS1", "REFS0"}])

\* line 172 without _BV(ADIE)
enableADCNoInterrupt(h) ==
    [h EXCEPT !.PRADC = FALSE,
              !.ADCSRA = h.ADCSRA \cup {"ADEN"} \cup BATTERY_VOLTAGE_PRESCALER]

\* power_adc_enable(); ADCSRA |= _BV(ADEN) | _BV(ADIE) | prescaler
enableADC(h) ==
    [h EXCEPT !.PRADC = FALSE,
              !.ADCSRA = h.ADCSRA \cup {"ADEN", "ADIE"}
                                  \cup BATTERY_VOLTAGE_PRESCALER]

\* entering the ADC noise reduction sleep starts a conversion when the ADC
\* is enabled and none is running
startConversion(h) ==
    IF "ADEN" \in h.ADCSRA /\ ~h.PRADC
    THEN [h EXCEPT !.ADCSRA = h.ADCSRA \cup {"ADSC"}]
    ELSE h

\* getBatteryVoltage without the early return of lines 198-201
returnValueNoEarlyReturn(sum, valid) ==
    [ret |-> IF valid = 0 THEN 0 ELSE battVoltage(sum, valid),
     divided |-> TRUE]

\* lines 198-210: the value returned, and whether line 203 divided
returnValue(sum, valid) ==
    IF valid = 0 THEN [ret |-> 0, divided |-> FALSE]
    ELSE [ret |-> battVoltage(sum, valid), divided |-> TRUE]

\* lines 198-210 in the build with ULV_MAX_MEASURE_VOLTAGE_3V3 defined
returnValue3V3(sum, valid) ==
    IF valid = 0 THEN [ret |-> 0, divided |-> FALSE]
    ELSE [ret |-> battVoltageWith(sum, valid, VOLTAGE_MULTIPLIER_3V3),
          divided |-> TRUE]

\* the last print as print() instead of println()
reportLineNoNewline(v) ==
    <<"Canique ULV Board battery voltage: ">> \o PrintNumber(v) \o <<" mv">>

\* the three prints of loop()
reportLine(v) ==
    <<"Canique ULV Board battery voltage: ">> \o PrintNumber(v)
        \o <<" mv", "\r\n">>

(***************************************************************************)
(* The state at entry to setup(): the pin is an input and low after reset; *)
(* the core may have enabled the ADC.                                      *)
(***************************************************************************)
ResetHw(aden) ==
    [DDRD4 |-> "INPUT", PORTD4 |-> "LOW", ADMUX |-> {},
     ADCSRA |-> IF aden THEN {"ADEN"} ELSE {}, PRADC |-> FALSE, ADC |-> 0]

Init ==
    /\ pc = "setup"
    /\ \E aden \in BOOLEAN : hw = ResetHw(aden)
    /\ numSamples = 0 /\ i = 0 /\ voltagesADC = 0 /\ numValidSamples = 0
    /\ voltage = 0
    /\ serial = <<>>
    /\ sleeps = 0 /\ clearWakes = 0 /\ settles = 0
    /\ warmedUp = FALSE
    /\ divided = FALSE
    /\ sumCounts = 0

(***************************************************************************)
(* setup(): pin modes, then setupAnalogConverter() with its delay(10).     *)
(* The delay warms up the ADC only if the ADC is enabled while it elapses. *)
(***************************************************************************)
setup ==
    /\ pc = "setup"
    /\ hw' = setupAnalogConverter(pinModeOutput(hw))
    /\ warmedUp' = ("ADEN" \in hw'.ADCSRA)
    /\ pc' = "idle"
    /\ UNCHANGED <<locals, voltage, serial, history>>

(***************************************************************************)
(* loop(), line 215: the call getBatteryVoltage(10).  The callee's locals  *)
(* hold whatever the stack holds until their initialisers run.             *)
(***************************************************************************)
callGetBatteryVoltage(n) ==
    /\ pc = "idle"
    /\ numSamples' = n
    /\ i' = 0
    /\ voltagesADC' \in StackInt
    /\ numValidSamples' \in StackByte
    /\ pc' = "gbv_enable"
    /\ UNCHANGED <<hw, voltage, serial, history, warmedUp>>

loopCall == callGetBatteryVoltage(NumSamplesLoop)

\* getBatteryVoltage called with any byte argument up to the bound
anyCall == \E n \in 0..MaxNumSamples : callGetBatteryVoltage(n)

(***************************************************************************)
(* getBatteryVoltage, lines 154-172.                                       *)
(***************************************************************************)
\* getBatteryVoltage without line 156
activateMeasurementNoSettle ==
    /\ pc = "gbv_enable"
    /\ hw' = digitalWrite(hw, "HIGH")
    /\ pc' = "gbv_adc_on"
    /\ UNCHANGED <<locals, voltage, serial, history, warmedUp>>

\* line 154: digitalWrite(BATTREAD_ENABLE_PIN, HIGH)
activateMeasurement ==
    /\ pc = "gbv_enable"
    /\ hw' = digitalWrite(hw, "HIGH")
    /\ pc' = "gbv_settle"
    /\ UNCHANGED <<locals, voltage, serial, history, warmedUp>>

\* line 156: delayMicroseconds(delayBeforeBattMeasureUs)
settleDelay ==
    /\ pc = "gbv_settle"
    /\ settles' = settles + 1
    /\ pc' = "gbv_adc_on"
    /\ UNCHANGED <<hw, locals, voltage, serial, sleeps, clearWakes, divided,
                   warmedUp, sumCounts>>

\* getBatteryVoltage with the locals declared without their initialisers
activateADCNoInitialisers ==
    /\ pc = "gbv_adc_on"
    /\ i' = 0
    /\ hw' = enableADC(hw)
    /\ warmedUp' = (warmedUp /\ "ADEN" \in hw.ADCSRA)
    /\ pc' = "gbv_for"
    /\ UNCHANGED <<numSamples, voltagesADC, numValidSamples, voltage, serial,
                   history>>

\* lines 161-175: the locals' initialisers, power_adc_enable(), ADCSRA |= ...,
\* and the loop's i = 0.  A newly enabled ADC has not been warmed up.
activateADC ==
    /\ pc = "gbv_adc_on"
    /\ voltagesADC' = 0
    /\ numValidSamples' = 0
    /\ i' = 0
    /\ hw' = enableADC(hw)
    /\ warmedUp' = (warmedUp /\ "ADEN" \in hw.ADCSRA)
    /\ pc' = "gbv_for"
    /\ UNCHANGED <<numSamples, voltage, serial, history>>

(***************************************************************************)
(* The sampling loop, lines 175-193.                                       *)
(***************************************************************************)
\* i < numSamples: LowPower.adcNoiseReduction(SLEEP_15MS, ADC_ON, TIMER2_OFF)
\* suspends the sketch; a conversion starts
enterNoiseReduction ==
    /\ pc = "gbv_for"
    /\ i < numSamples
    /\ hw' = startConversion(hw)
    /\ sleeps' = sleeps + 1
    /\ pc' = "noise_sleep"
    /\ UNCHANGED <<locals, voltage, serial, clearWakes, settles, divided,
                   warmedUp, sumCounts>>

\* an ISR(ADC_vect) that collects the sample itself
ADC_vectAccumulating ==
    /\ "ADSC" \in hw.ADCSRA
    /\ \E raw \in RawCounts :
          /\ hw' = [hw EXCEPT !.ADCSRA = hw.ADCSRA \ {"ADSC"}, !.ADC = raw]
          /\ voltagesADC' = WrapInt16(voltagesADC + raw)
          /\ sumCounts' = sumCounts + raw
    /\ numValidSamples' = WrapByte(numValidSamples + 1)
    /\ pc' = IF pc = "noise_sleep" /\ "ADIE" \in hw.ADCSRA
             THEN "gbv_check" ELSE pc
    /\ UNCHANGED <<numSamples, i, voltage, serial, sleeps, clearWakes,
                   settles, divided, warmedUp>>

\* the conversion completes: ADSC clears, the data register takes the
\* result, ISR(ADC_vect) runs (its body is empty) and a sleeping sketch
\* wakes; the conversion may also complete while the sketch is running
ADC_vect ==
    /\ "ADSC" \in hw.ADCSRA
    /\ \E raw \in RawCounts :
          hw' = [hw EXCEPT !.ADCSRA = hw.ADCSRA \ {"ADSC"}, !.ADC = raw]
    /\ pc' = IF pc = "noise_sleep" /\ "ADIE" \in hw.ADCSRA
             THEN "gbv_check" ELSE pc
    /\ UNCHANGED <<locals, voltage, serial, history, warmedUp>>

\* another interrupt (the watchdog, a pin change, ...) ends the sleep first
wakeOther ==
    /\ pc = "noise_sleep"
    /\ pc' = "gbv_check"
    /\ UNCHANGED <<hw, locals, voltage, serial, history, warmedUp>>

\* a skipped attempt that goes back to sleep until its conversion is done
skipSampleSleepAgain ==
    /\ pc = "gbv_check"
    /\ "ADSC" \in hw.ADCSRA
    /\ pc' = "noise_sleep"
    /\ UNCHANGED <<hw, locals, voltage, serial, history, warmedUp>>

\* a skipped attempt that is given back to the budget (i is not advanced)
skipSampleAndRetry ==
    /\ pc = "gbv_check"
    /\ "ADSC" \in hw.ADCSRA
    /\ pc' = "gbv_for"
    /\ UNCHANGED <<hw, locals, voltage, serial, history, warmedUp>>

\* lines 186-189: ADSC still set, continue
skipSample ==
    /\ pc = "gbv_check"
    /\ "ADSC" \in hw.ADCSRA
    /\ i' = WrapByte(i + 1)
    /\ pc' = "gbv_for"
    /\ UNCHANGED <<hw, numSamples, voltagesADC, numValidSamples, voltage,
                   serial, history, warmedUp>>

\* a read-out that does not look at ADSC first
readSampleUnchecked ==
    /\ pc = "gbv_check"
    /\ voltagesADC' = WrapInt16(voltagesADC + hw.ADC)
    /\ numValidSamples' = WrapByte(numValidSamples + 1)
    /\ clearWakes' = clearWakes + (IF "ADSC" \in hw.ADCSRA THEN 0 ELSE 1)
    /\ sumCounts' = sumCounts + (IF "ADSC" \in hw.ADCSRA THEN 0 ELSE hw.ADC)
    /\ i' = WrapByte(i + 1)
    /\ pc' = "gbv_for"
    /\ UNCHANGED <<hw, numSamples, voltage, serial, sleeps, settles, divided,
                   warmedUp>>

\* lines 191-192: voltagesADC += ADC; numValidSamples++.  An addition that
\* leaves the range of int is undefined in C; the 16 bit add of the AVR
\* build wraps, and no outcome within int is the arithmetic sum.
readSample ==
    /\ pc = "gbv_check"
    /\ "ADSC" \notin hw.ADCSRA
    /\ voltagesADC' = WrapInt16(voltagesADC + hw.ADC)
    /\ numValidSamples' = WrapByte(numValidSamples + 1)
    /\ clearWakes' = clearWakes + 1
    /\ sumCounts' = sumCounts + hw.ADC
    /\ i' = WrapByte(i + 1)
    /\ pc' = "gbv_for"
    /\ UNCHANGED <<hw, numSamples, voltage, serial, sleeps, settles, divided,
                   warmedUp>>

(***************************************************************************)
(* After the loop, lines 195-210.                                          *)
(***************************************************************************)
\* the early return of lines 198-201 placed before line 195
deactivateADCUnlessSentinel ==
    /\ pc = "gbv_for"
    /\ ~(i < numSamples)
    /\ hw' = IF numValidSamples = 0 THEN hw ELSE turnOffADC(hw)
    /\ pc' = IF numValidSamples = 0 THEN "gbv_return" ELSE "gbv_pin_low"
    /\ UNCHANGED <<locals, voltage, serial, history, warmedUp>>

\* i >= numSamples; line 195: turnOffADC()
deactivateADC ==
    /\ pc = "gbv_for"
    /\ ~(i < numSamples)
    /\ hw' = turnOffADC(hw)
    /\ pc' = "gbv_pin_low"
    /\ UNCHANGED <<locals, voltage, serial, history, warmedUp>>

\* line 196: digitalWrite(BATTREAD_ENABLE_PIN, LOW)
deactivateMeasurement ==
    /\ pc = "gbv_pin_low"
    /\ hw' = digitalWrite(hw, "LOW")
    /\ pc' = "gbv_return"
    /\ UNCHANGED <<locals, voltage, serial, history, warmedUp>>

\* lines 198-210 and the assignment of line 215
returnVoltage ==
    /\ pc = "gbv_return"
    /\ LET r == returnValue(voltagesADC, numValidSamples)
       IN  /\ voltage' = r.ret
           /\ divided' = r.divided
    /\ pc' = "report"
    /\ UNCHANGED <<hw, locals, serial, sleeps, clearWakes, settles, warmedUp,
                   sumCounts>>

\* the same step in the build with ULV_MAX_MEASURE_VOLTAGE_3V3 defined
returnVoltage3V3 ==
    /\ pc = "gbv_return"
    /\ LET r == returnValue3V3(voltagesADC, numValidSamples)
       IN  /\ voltage' = r.ret
           /\ divided' = r.divided
    /\ pc' = "report"
    /\ UNCHANGED <<hw, locals, serial, sleeps, clearWakes, settles, warmedUp,
                   sumCounts>>

(***************************************************************************)
(* The rest of loop(), lines 217-228.                                      *)
(***************************************************************************)
report ==
    /\ pc = "report"
    /\ serial' = serial \o reportLine(voltage)
    /\ pc' = "power_down"
    /\ UNCHANGED <<hw, locals, voltage, history, warmedUp>>

\* loop() without line 226: it returns without sleeping
powerDownSkipped ==
    /\ pc = "power_down"
    /\ pc' = "idle"
    /\ numSamples' = 0 /\ i' = 0 /\ voltagesADC' = 0 /\ numValidSamples' = 0
    /\ voltage' = 0
    /\ serial' = <<>>
    /\ sleeps' = 0 /\ clearWakes' = 0 /\ settles' = 0 /\ sumCounts' = 0
    /\ divided' = FALSE
    /\ UNCHANGED <<hw, warmedUp>>

\* line 226: LowPower.powerDown(SLEEP_8S, ADC_ON, BOD_OFF); with ADC_ON the
\* library leaves the ADC registers alone
powerDown ==
    /\ pc = "power_down"
    /\ pc' = "deep_sleep"
    /\ UNCHANGED <<hw, locals, voltage, serial, history, warmedUp>>

\* the watchdog timer (or any other interrupt) ends the power-down sleep;
\* loop() returns, its locals and those of getBatteryVoltage are gone, and
\* the core calls loop() again
wakePowerDown ==
    /\ pc = "deep_sleep"
    /\ pc' = "idle"
    /\ numSamples' = 0 /\ i' = 0 /\ voltagesADC' = 0 /\ numValidSamples' = 0
    /\ voltage' = 0
    /\ serial' = <<>>
    /\ sleeps' = 0 /\ clearWakes' = 0 /\ settles' = 0 /\ sumCounts' = 0
    /\ divided' = FALSE
    /\ UNCHANGED <<hw, warmedUp>>

(***************************************************************************)
(* Specifications.                                                         *)
(***************************************************************************)
Cycle ==
    \/ setup
    \/ activateMeasurement
    \/ settleDelay
    \/ activateADC
    \/ enterNoiseReduction
    \/ ADC_vect
    \/ wakeOther
    \/ skipSample
    \/ readSample
    \/ deactivateADC
    \/ deactivateMeasurement
    \/ returnVoltage
    \/ report
    \/ powerDown
    \/ wakePowerDown

\* the sketch
Next == loopCall \/ Cycle

Spec == Init /\ [][Next]_vars

\* the sketch, with every step and every wake event eventually happening
LiveSpec == Init /\ [][Next]_vars /\ WF_vars(Next)

\* the sketch with getBatteryVoltage called with any argument
NextArg == anyCall \/ Cycle

SpecArg == Init /\ [][NextArg]_vars

\* getBatteryVoltage called with arguments around the number of full-scale
\* samples an int can hold: 32 * 1023 = 32736 <= 32767 < 33 * 1023
WideNumSamples == {0, 32, 33}

wideCall == \E n \in WideNumSamples : callGetBatteryVoltage(n)

NextWide == wideCall \/ Cycle

SpecWide == Init /\ [][NextWide]_vars

(***************************************************************************)
(* The computation of lines 198-210 alone: getBatteryVoltage is about to   *)
(* return, after a loop of MaxValid attempts of which valid were read out  *)
(* with the sum sum; the data register holds a possible last sample.       *)
(***************************************************************************)
AfterLoopHw(sum, valid) ==
    [DDRD4 |-> "OUTPUT", PORTD4 |-> "LOW",
     ADMUX |-> {"MUX2", "MUX1", "MUX0", "REFS1", "REFS0"},
     ADCSRA |-> {"ADIE"} \cup BATTERY_VOLTAGE_PRESCALER, PRADC |-> TRUE,
     ADC |-> IF valid = 0 \/ sum <= 1023 * (valid - 1) THEN 0
             ELSE sum - 1023 * (valid - 1)]

InitCompute ==
    \E valid \in 0..MaxValid : \E sum \in 0..(1023 * valid) :
        /\ pc = "gbv_return"
        /\ hw = AfterLoopHw(sum, valid)
        /\ numSamples = MaxValid /\ i = MaxValid
        /\ voltagesADC = sum /\ numValidSamples = valid
        /\ voltage = 0
        /\ serial = <<>>
        /\ sleeps = MaxValid /\ clearWakes = valid /\ settles = 1
        /\ warmedUp = FALSE
        /\ divided = FALSE
        /\ sumCounts = sum

NextCompute == returnVoltage

SpecCompute == InitCompute /\ [][NextCompute]_vars

\* the same computation in the build for the 3.3 V board
NextCompute3V3 == returnVoltage3V3

SpecCompute3V3 == InitCompute /\ [][NextCompute3V3]_vars

(***************************************************************************)
(* Properties.                                                             *)
(***************************************************************************)
OutsideGetBatteryVoltage == {"idle", "report", "power_down", "deep_sleep"}
AfterSamplingLoop ==
    {"gbv_pin_low", "gbv_return", "report", "power_down", "deep_sleep"}
AfterReturn == {"report", "power_down", "deep_sleep"}

\* C1: whenever getBatteryVoltage is not executing after setup (idle,
\* reporting, entering and during the power-down sleep), the enable pin is
\* LOW and ADEN is clear; so powerDown is never entered with the
\* measurement circuit powered.
C1_CircuitOffOutsideMeasurement ==
    pc \in OutsideGetBatteryVoltage =>
        hw.PORTD4 = "LOW" /\ "ADEN" \notin hw.ADCSRA

\* a power-down sleep of a cycle that had both spurious and clean wakes
C1_Witness ==
    /\ pc = "deep_sleep"
    /\ sleeps = NumSamplesLoop
    /\ 0 < clearWakes /\ clearWakes < sleeps
    /\ hw.PORTD4 = "LOW" /\ "ADEN" \notin hw.ADCSRA

\* C2: when no attempt of the cycle was valid, getBatteryVoltage returns 0
\* without dividing, for every numSamples (0 included) and every content
\* of the ADC data register.
C2_SentinelWithoutDivision ==
    (pc \in AfterReturn /\ numValidSamples = 0) =>
        voltage = 0 /\ ~divided

\* a call whose attempts were all rejected, with a nonzero data register
C2_Witness ==
    /\ pc = "report"
    /\ numSamples >= 2 /\ sleeps = numSamples
    /\ numValidSamples = 0
    /\ hw.ADC = 1023
    /\ voltage = 0

\* C3: the loop enters the noise-reduction sleep exactly numSamples times,
\* and when it exits 0 <= numValidSamples <= numSamples and numValidSamples
\* is the number of attempts whose wake found ADSC clear.
C3_ExactlyNAttempts ==
    /\ sleeps <= numSamples
    /\ pc \in AfterSamplingLoop =>
          /\ sleeps = numSamples
          /\ 0 <= numValidSamples /\ numValidSamples <= numSamples
          /\ numValidSamples = clearWakes

\* a loop that ended with some, but not all, attempts valid
C3_Witness ==
    /\ pc = "gbv_pin_low"
    /\ numSamples = 3 /\ sleeps = 3
    /\ numValidSamples = 2 /\ clearWakes = 2

\* C4: an attempt whose wake finds ADSC set leaves voltagesADC and
\* numValidSamples unchanged, is not retried (no further sleep belongs to
\* it) and consumes one attempt; an attempt whose wake finds ADSC clear
\* adds exactly the data register to voltagesADC and 1 to numValidSamples.
C4_AttemptEffect ==
    [][(pc = "gbv_check" /\ pc' # "gbv_check") =>
          /\ pc' = "gbv_for"
          /\ i' = i + 1
          /\ sleeps' = sleeps
          /\ IF "ADSC" \in hw.ADCSRA
             THEN /\ voltagesADC' = voltagesADC
                  /\ numValidSamples' = numValidSamples
             ELSE /\ voltagesADC' = voltagesADC + hw.ADC
                  /\ numValidSamples' = numValidSamples + 1]_vars

\* the loop's last attempt was rejected after earlier ones were read out
C4_Witness ==
    /\ pc = "gbv_for"
    /\ i = numSamples
    /\ "ADSC" \in hw.ADCSRA
    /\ numValidSamples = 2 /\ voltagesADC = 1823

\* C5: in every cycle the warm-up delay elapses after the ADC has been
\* enabled for that cycle and before the cycle's first conversion attempt.
C5_WarmUpBeforeFirstAttempt ==
    sleeps >= 1 => warmedUp

\* C6: in every cycle the settle delay is executed exactly once, after the
\* enable pin has been driven HIGH and before the first conversion attempt.
C6_SettleOncePerCycle ==
    /\ [](settles <= 1)
    /\ []((sleeps >= 1 \/ pc \in AfterSamplingLoop) => settles = 1)
    /\ [][settles' # settles /\ settles' # 0 =>
             /\ settles' = settles + 1
             /\ hw.PORTD4 = "HIGH"
             /\ sleeps = 0]_vars

\* the first attempt of a cycle is asleep, the one settle delay behind it
C6_Witness ==
    /\ pc = "noise_sleep"
    /\ sleeps = 1
    /\ settles = 1
    /\ hw.PORTD4 = "HIGH"

\* the steps of a cycle, as the transitions of pc
CycleOrder ==
    {<<"setup", "idle">>, <<"idle", "gbv_enable">>,
     <<"gbv_enable", "gbv_settle">>, <<"gbv_settle", "gbv_adc_on">>,
     <<"gbv_adc_on", "gbv_for">>, <<"gbv_for", "noise_sleep">>,
     <<"noise_sleep", "gbv_check">>, <<"gbv_check", "gbv_for">>,
     <<"gbv_for", "gbv_pin_low">>, <<"gbv_pin_low", "gbv_return">>,
     <<"gbv_return", "report">>, <<"report", "power_down">>,
     <<"power_down", "deep_sleep">>, <<"deep_sleep", "idle">>}

\* C7: every cycle of loop() is, in this order and no other: enable the
\* measurement circuit, N sampling attempts, disable the circuit, compute
\* the reading, report it, enter the power-down sleep; the next enable
\* happens only after that sleep has ended.
C7_CycleOrder ==
    /\ [][pc' # pc => <<pc, pc'>> \in CycleOrder]_vars
    \* enable: nothing of this cycle has happened, and no sleep is going on
    /\ [][hw.PORTD4 = "LOW" /\ hw'.PORTD4 = "HIGH" =>
             /\ pc = "gbv_enable"
             /\ sleeps = 0 /\ serial = <<>>]_vars
    \* an attempt: the circuit is enabled, fewer than N attempts so far
    /\ [][sleeps' = sleeps + 1 =>
             /\ hw.PORTD4 = "HIGH" /\ "ADEN" \in hw.ADCSRA
             /\ sleeps < NumSamplesLoop /\ serial = <<>>]_vars
    \* disable: after exactly N attempts
    /\ [][hw.PORTD4 = "HIGH" /\ hw'.PORTD4 = "LOW" =>
             /\ sleeps = NumSamplesLoop
             /\ "ADEN" \notin hw'.ADCSRA]_vars
    \* compute: after the disable
    /\ [][pc = "gbv_return" /\ pc' # pc =>
             /\ hw.PORTD4 = "LOW" /\ sleeps = NumSamplesLoop
             /\ voltage' = returnValue(voltagesADC, numValidSamples).ret]_vars
    \* report: after the compute, before the sleep
    /\ [][serial' # serial /\ serial' # <<>> =>
             pc = "report" /\ serial = <<>>]_vars
    \* the power-down sleep: after the report
    /\ [][pc' = "deep_sleep" /\ pc # pc' =>
             serial # <<>> /\ hw.PORTD4 = "LOW"]_vars

\* the power-down sleep of a cycle whose ten attempts were all read out
C7_Witness ==
    /\ pc = "deep_sleep"
    /\ sleeps = NumSamplesLoop /\ numValidSamples = NumSamplesLoop
    /\ serial # <<>>
    /\ hw.PORTD4 = "LOW"

RECURSIVE ParseNumber(_)
\* the number a sequence of decimal digits denotes
ParseNumber(ds) ==
    IF ds = <<>> THEN 0
    ELSE 10 * ParseNumber(SubSeq(ds, 1, Len(ds) - 1))
           + (CHOOSE d \in 0..9 : Digits[d + 1] = ds[Len(ds)])

\* the complete lines in a sequence of printed pieces
LineCount(out) == Cardinality({k \in 1..Len(out) : out[k] = "\r\n"})

\* the reading of this cycle, from this cycle's samples
CycleReading == returnValue(voltagesADC, numValidSamples).ret

\* C8: exactly one line 'Canique ULV Board battery voltage: <value> mv' is
\* emitted per cycle, after the measurement and before the power-down
\* sleep, and <value> is the reading computed in that cycle, the sentinel 0
\* included.
C8_OneReportPerCycle ==
    IF pc \in {"power_down", "deep_sleep"}
    THEN /\ LineCount(serial) = 1
         /\ Len(serial) >= 4
         /\ serial[1] = "Canique ULV Board battery voltage: "
         /\ serial[Len(serial) - 1] = " mv"
         /\ serial[Len(serial)] = "\r\n"
         /\ \A k \in 2..(Len(serial) - 2) :
               \E d \in 1..10 : serial[k] = Digits[d]
         /\ ParseNumber(SubSeq(serial, 2, Len(serial) - 2)) = CycleReading
         /\ serial[2] = "0" => CycleReading = 0
    ELSE serial = <<>>

\* the sentinel has been reported, as the line "... voltage: 0 mv"
C8_Witness ==
    /\ pc = "deep_sleep"
    /\ numValidSamples = 0 /\ sleeps = NumSamplesLoop
    /\ serial = <<"Canique ULV Board battery voltage: ", "0", " mv", "\r\n">>

\* C9: the cycle has no terminal state: with every sleep eventually ended
\* by a wake event, every started cycle eventually reports a reading and
\* enters the power-down sleep, a new cycle starts after every power-down
\* sleep, and readings are reported infinitely often, also when every
\* attempt is woken spuriously.
C9_ReadingsForever ==
    /\ (pc = "gbv_enable") ~> (pc = "power_down" /\ LineCount(serial) = 1)
    /\ (pc = "power_down") ~> (pc = "deep_sleep")
    /\ (pc = "deep_sleep") ~> (pc = "gbv_enable")
    /\ []<>(pc = "power_down" /\ LineCount(serial) = 1)

\* a cycle all of whose attempts were woken spuriously reached its sleep
C9_Witness ==
    /\ pc = "deep_sleep"
    /\ sleeps = NumSamplesLoop
    /\ clearWakes = 0 /\ numValidSamples = 0
    /\ LineCount(serial) = 1

\* a / b rounded to the nearest integer, a >= 0, b > 0
RoundDiv(a, b) == (2 * a + b) \div (2 * b)

\* round(1000 * (1.1 / 1023) * c * (1680 / 1000)) in exact arithmetic:
\* 1000 * 1.1 * 1.68 = 1848
ExactMilliVolts(c) == RoundDiv(1848 * c, 1023)

\* C10: for k >= 1 valid samples that all have the same raw count c in
\* 0..1023 (so that voltagesADC = c * k), getBatteryVoltage returns
\* round(1000 * (1.1 / 1023) * c * VOLTAGE_MULTIPLIER), whatever k is.
C10_EqualSamples ==
    (/\ pc = "report"
     /\ numValidSamples >= 1
     /\ voltagesADC % numValidSamples = 0) =>
        voltage = ExactMilliVolts(voltagesADC \div numValidSamples)

\* seven samples of 800 counts each have been turned into 1445 mV
C10_Witness ==
    /\ pc = "report"
    /\ numValidSamples = 7
    /\ voltagesADC = 7 * 800
    /\ voltage = 1445

\* C11: when the sampling loop has ended, voltagesADC is the arithmetic sum
\* of the raw counts of the valid attempts of the cycle, for every numSamples
\* a byte admits: the accumulation in a 16 bit int never wraps.
C11_AccumulatorExact ==
    pc \in AfterSamplingLoop => voltagesADC = sumCounts

\* C12 as stated: a reading of 0 mV always means that the cycle had no valid
\* sample; no cycle with numValidSamples >= 1 returns 0.
C12_ZeroMeansNoValidSample ==
    (pc = "report" /\ voltage = 0) => numValidSamples = 0

\* C12, amended: getBatteryVoltage returns 0 when the cycle had no valid
\* sample and also when the valid samples are so low that the millivolt
\* value rounds to 0, which is when 1848 * sum / (1023 * k) < 1/2; in every
\* other case it returns at least 1.
C12_ZeroReading ==
    pc = "report" =>
        (voltage = 0 <=>
            \/ numValidSamples = 0
            \/ 2 * 1848 * voltagesADC < 1023 * numValidSamples)

\* four valid samples, one of them 1 count and the others 0, gave 0 mV
C12_Witness ==
    /\ pc = "report"
    /\ numValidSamples = 4 /\ voltagesADC = 1
    /\ divided
    /\ voltage = 0

\* the sketch is suspended in a sleep
Suspended == {"noise_sleep", "deep_sleep"}

\* C13: sampling is strictly serialized: at most one attempt is outstanding
\* (asleep or awaiting its check), attempt i+1 enters the noise-reduction
\* sleep only when attempt i has been read out or rejected, and while the
\* device is suspended in a sleep nothing of the sketch's state changes.
C13_StrictlySerialized ==
    \* the attempts begun are the attempts resolved, plus the outstanding one
    /\ [](sleeps = IF pc \in {"noise_sleep", "gbv_check"} THEN i + 1 ELSE i)
    \* a sleep is entered by the loop alone, with no attempt outstanding
    /\ [][pc' = "noise_sleep" /\ pc # "noise_sleep" =>
             pc = "gbv_for" /\ sleeps = i /\ sleeps' = sleeps + 1]_vars
    \* an attempt is resolved once, by a read-out or by a rejection
    /\ [][i' = i + 1 =>
             /\ pc = "gbv_check" /\ sleeps = i + 1 /\ sleeps' = sleeps
             /\ IF "ADSC" \in hw.ADCSRA
                THEN numValidSamples' = numValidSamples
                ELSE numValidSamples' = numValidSamples + 1]_vars
    \* in the noise-reduction sleep only the conversion goes on
    /\ [][pc = "noise_sleep" =>
             /\ UNCHANGED <<locals, voltage, serial, history>>
             /\ hw' = [hw EXCEPT !.ADCSRA = hw'.ADCSRA, !.ADC = hw'.ADC]
             /\ hw'.ADCSRA \ {"ADSC"} = hw.ADCSRA \ {"ADSC"}
             /\ pc' \in {"noise_sleep", "gbv_check"}]_vars
    \* in the power-down sleep nothing goes on
    /\ [][pc = "deep_sleep" => hw' = hw /\ pc' \in {"deep_sleep", "idle"}]_vars

\* the third attempt is asleep, one earlier attempt read out and one rejected
C13_Witness ==
    /\ pc = "noise_sleep"
    /\ sleeps = 3 /\ i = 2
    /\ numValidSamples = 1 /\ clearWakes = 1

\* C14: for one valid sample of 1023 counts, and for every sum and count
\* the loop can produce from raw counts in 0..1023, the value lround returns
\* is within 0..65535 for both divider ratios (1680/1000 and 989/309), with
\* correction 1.0, so that the conversion to uint16_t changes nothing.
C14_FitsUint16 ==
    (pc = "report" /\ numValidSamples >= 1) =>
        /\ \A multiplier \in {VOLTAGE_MULTIPLIER, VOLTAGE_MULTIPLIER_3V3} :
              LET mv == milliVolts(voltagesADC, numValidSamples, multiplier)
              IN  /\ 0 <= mv /\ mv <= 65535
                  /\ battVoltageWith(voltagesADC, numValidSamples,
                                     multiplier) = mv
        /\ voltage = milliVolts(voltagesADC, numValidSamples,
                                VOLTAGE_MULTIPLIER)

\* one valid sample at full scale: 1848 mV, and 3521 mV with 989/309
C14_Witness ==
    /\ pc = "report"
    /\ numValidSamples = 1 /\ voltagesADC = 1023
    /\ voltage = 1848
    /\ milliVolts(1023, 1, VOLTAGE_MULTIPLIER_3V3) = 3521

\* sums below s with which a result for s is compared: the next lower one
\* (from one sum to the next, every pair of sums is covered), and some
\* far ones
LowerSums(s) == {t \in {s - 1, s \div 2, s \div 3, 0} : 0 <= t /\ t <= s}

\* C15: for a fixed number k > 0 of valid samples, the value returned does
\* not decrease when the sum of the raw counts increases: s1 <= s2 implies
\* result(s1, k) <= result(s2, k).
C15_Monotone ==
    (pc = "report" /\ numValidSamples >= 1) =>
        /\ voltage = battVoltage(voltagesADC, numValidSamples)
        /\ \A s1 \in LowerSums(voltagesADC) :
              battVoltage(s1, numValidSamples) <= voltage

\* two valid samples: the sums 1599, 1600 and 1601 give 1444, 1445, 1446 mV
C15_Witness ==
    /\ pc = "report"
    /\ numValidSamples = 2 /\ voltagesADC = 1600
    /\ voltage = 1445
    /\ battVoltage(1599, 2) = 1444
    /\ battVoltage(1601, 2) = 1446

\* C16: the reading of a cycle is a function of that cycle's valid samples
\* only: voltagesADC and numValidSamples start at 0 in every cycle, whatever
\* the stack and the data register hold from earlier cycles, so the value
\* returned and reported is the one computed from the raw counts read out in
\* this cycle and their number, and from nothing else.
C16_ReadingOfThisCycle ==
    \* the loop starts from 0 and 0
    /\ (pc = "gbv_for" /\ sleeps = 0) =>
           voltagesADC = 0 /\ numValidSamples = 0
    \* the accumulators hold this cycle's read-outs
    /\ pc \in {"gbv_for", "noise_sleep", "gbv_check"} \cup AfterSamplingLoop =>
           voltagesADC = sumCounts /\ numValidSamples = clearWakes
    \* the reading is the function returnValue of them
    /\ pc \in AfterReturn =>
           /\ voltage = returnValue(sumCounts, clearWakes).ret
           /\ voltage = CycleReading

\* a cycle with three read-outs (1023, 1023 and 800 counts) out of ten
\* attempts has returned their reading, the data register holding 0 since
C16_Witness ==
    /\ pc = "report"
    /\ sleeps = NumSamplesLoop
    /\ clearWakes = 3 /\ sumCounts = 2846
    /\ hw.ADC = 0
    /\ voltage = battVoltage(2846, 3)

\* the line loop() prints for the reading v
ReportOf(v) ==
    <<"Canique ULV Board battery voltage: ">> \o v \o <<" mv", "\r\n">>

\* C17: scenario B: on the 1.8 V variant (multiplier 1680/1000, correction
\* 1.0), the variant the sketch compiles, a cycle whose valid samples average
\* to the raw count 800 returns and reports 1445 mV.
C17_ScenarioB ==
    (numValidSamples >= 1 /\ voltagesADC = 800 * numValidSamples) =>
        /\ pc \in AfterReturn => voltage = 1445
        /\ pc \in {"power_down", "deep_sleep"} =>
              serial = ReportOf(<<"1", "4", "4", "5">>)

\* ten valid samples of 800 counts have been reported as 1445 mv
C17_Witness ==
    /\ pc = "deep_sleep"
    /\ numValidSamples = NumSamplesLoop /\ sumCounts = 8000
    /\ voltage = 1445
    /\ serial = ReportOf(<<"1", "4", "4", "5">>)

\* C18: scenario A: on the 3.3 V variant (multiplier 989/309, correction
\* 1.0) a cycle whose valid samples average to the raw count 372 returns
\* 1280 mV.
C18_ScenarioA ==
    (/\ pc = "report"
     /\ numValidSamples >= 1
     /\ voltagesADC = 372 * numValidSamples) =>
        voltage = 1280

\* five valid samples with the sum 5 * 372 have been turned into 1280 mV
C18_Witness ==
    /\ pc = "report"
    /\ numValidSamples = 5 /\ voltagesADC = 1860
    /\ divided
    /\ voltage = 1280

\* C19: every entry into LowPower.adcNoiseReduction happens with the enable
\* pin HIGH and the ADC enabled with its interrupt (ADEN and ADIE set, the
\* ADC powered), and the ADC data register is read only when no conversion
\* is in progress (ADSC clear); this holds for every attempt, the one that
\* follows a spurious wake with its conversion still running included.
C19_AttemptsWithCircuitOn ==
    /\ [][sleeps' = sleeps + 1 =>
             /\ hw.PORTD4 = "HIGH"
             /\ {"ADEN", "ADIE"} \subseteq hw.ADCSRA
             /\ ~hw.PRADC
             /\ "ADSC" \in hw'.ADCSRA]_vars
    /\ [](pc = "noise_sleep" =>
             /\ hw.PORTD4 = "HIGH"
             /\ {"ADEN", "ADIE"} \subseteq hw.ADCSRA
             /\ ~hw.PRADC)
    /\ [][(pc = "gbv_check"
             /\ (numValidSamples' # numValidSamples
                  \/ voltagesADC' # voltagesADC)) =>
             /\ "ADSC" \notin hw.ADCSRA
             /\ voltagesADC' = voltagesADC + hw.ADC
             /\ numValidSamples' = numValidSamples + 1]_vars

\* the second attempt is asleep on the conversion the first one, woken
\* spuriously and rejected, left running
C19_Witness ==
    /\ pc = "noise_sleep"
    /\ sleeps = 2 /\ i = 1
    /\ clearWakes = 0 /\ numValidSamples = 0
    /\ "ADSC" \in hw.ADCSRA
    /\ hw.PORTD4 = "HIGH"

\* the power state of the measurement circuit in each part of a cycle
PowerState ==
    [pin |-> hw.PORTD4, adc |-> "ADEN" \in hw.ADCSRA /\ ~hw.PRADC]

\* C20: the power transitions of a cycle are nested and happen once each:
\* the enable pin goes HIGH before the ADC is enabled, the ADC is turned off
\* (turnOffADC) before the enable pin goes LOW, and both are turned off on
\* every path out of the sampling loop, the path that returns the sentinel
\* and the path whose last attempt left a conversion running included.
C20_NestedPowerTransitions ==
    \* each part of the cycle has its power state
    /\ [](pc \in {"idle", "gbv_enable"} =>
             PowerState = [pin |-> "LOW", adc |-> FALSE])
    /\ [](pc \in {"gbv_settle", "gbv_adc_on"} =>
             PowerState = [pin |-> "HIGH", adc |-> FALSE])
    /\ [](pc \in {"gbv_for", "noise_sleep", "gbv_check"} =>
             PowerState = [pin |-> "HIGH", adc |-> TRUE])
    /\ [](pc = "gbv_pin_low" =>
             /\ PowerState = [pin |-> "HIGH", adc |-> FALSE]
             /\ hw.PRADC /\ hw.ADCSRA \cap {"ADEN", "ADSC"} = {})
    /\ [](pc \in {"gbv_return"} \cup AfterReturn =>
             /\ PowerState = [pin |-> "LOW", adc |-> FALSE]
             /\ hw.PRADC /\ hw.ADCSRA \cap {"ADEN", "ADSC"} = {})
    \* the parts follow each other in one order, so each change happens once
    /\ [][pc' # pc => <<pc, pc'>> \in CycleOrder]_vars
    /\ [][PowerState' # PowerState /\ pc # "setup" =>
             <<PowerState.pin, PowerState.adc, PowerState'.pin,
               PowerState'.adc>> \in
                 {<<"LOW", FALSE, "HIGH", FALSE>>,
                  <<"HIGH", FALSE, "HIGH", TRUE>>,
                  <<"HIGH", TRUE, "HIGH", FALSE>>,
                  <<"HIGH", FALSE, "LOW", FALSE>>}]_vars
    \* once the pin is HIGH, the ADC and then the pin are turned off
    /\ (hw.PORTD4 = "HIGH") ~>
          (pc = "gbv_pin_low" /\ PowerState = [pin |-> "HIGH", adc |-> FALSE])
    /\ (pc = "gbv_pin_low") ~>
          (pc = "gbv_return" /\ PowerState = [pin |-> "LOW", adc |-> FALSE])

\* getBatteryVoltage is about to return the sentinel, pin LOW and ADC off,
\* after a loop none of whose conversions was read out
C20_Witness ==
    /\ pc = "gbv_return"
    /\ sleeps = NumSamplesLoop
    /\ numValidSamples = 0 /\ clearWakes = 0
    /\ hw.PORTD4 = "LOW"
    /\ hw.PRADC /\ hw.ADCSRA \cap {"ADEN", "ADSC"} = {}
=============================================================================
